---------------------------- MODULE Spec2Model ----------------------------
(***************************************************************************)
(* The floating overlay of SecRandom (app/view/floating_window/            *)
(* levitation.py, class LevitationWindow): drag detection, edge docking,   *)
(* the timers that trigger a collapse, the collapse/expand animations and  *)
(* the two collapsed indicators, together with the configuration-change    *)
(* handler.  Rectangles follow QRect: right = left + width - 1 and         *)
(* bottom = top + height - 1.                                              *)
(***************************************************************************)
EXTENDS Integers, FiniteSets, Sequences, TLC

VARIABLES
    pos,            \* self.pos(): the panel's top-left corner [x, y]
    dragging,       \* self._dragging
    press_pos,      \* self._press_pos
    grab,           \* the mouse button held down on the panel ("none", "left")
    inside,         \* the pointer is over the panel (between enterEvent and leaveEvent)
    drag_timer,     \* self._drag_timer.isActive()
    retract_timer,  \* self._retract_timer.isActive()
    auto_hide_timer,\* self._auto_hide_timer: "absent" (no attribute), "idle", "active"
    hide_shots,     \* pending callbacks of _auto_hide_window nothing can stop
    check_shots,    \* pending QTimer.singleShot(100, self._check_edge_proximity)
    anim,           \* self.animation: the panel's geometry animation
    storage_anim,   \* the storage window's exit animation is in flight
    original_position, \* self._original_position (NoPos: no such attribute)
    retracted,      \* self._retracted
    last_stuck,     \* self._last_stuck
    indicator,      \* self._indicator: the legacy docked-edge marker
    storage_window, \* self.storage_window (NoWidget: absent or None)
    arrow_widget,   \* self.arrow_widget (NoWidget: absent or None)
    cfg,            \* the configuration snapshot held in the object's fields
    saved,          \* float_position.x / float_position.y in the configuration store
    gesture,        \* history: whether the press in progress still counts as a click
    collapse_from,  \* history: where the panel stood when the collapse in effect began
    events,         \* how many presses, indicator clicks and setting changes there were
    stray,          \* a running animation that self.animation no longer refers to
    probe,          \* inputs and results of the geometry functions run on their own
    handle,         \* a collapsed indicator and the pointer gesture on it, run on its own
    bar             \* the button bar built on its own: index, placement, rows

vars == << pos, dragging, press_pos, grab, inside, drag_timer, retract_timer,
           auto_hide_timer, hide_shots, check_shots, anim, storage_anim,
           original_position, retracted, last_stuck, indicator, storage_window,
           arrow_widget, cfg, saved, gesture, collapse_from, events, stray,
           probe, bar, handle >>

overlay_vars == << pos, dragging, press_pos, grab, inside, drag_timer, retract_timer,
                   auto_hide_timer, hide_shots, check_shots, anim, storage_anim,
                   original_position, retracted, last_stuck, indicator,
                   storage_window, arrow_widget, cfg, saved, gesture,
                   collapse_from, events, stray >>

---------------------------------------------------------------------------
(* Program constants *)

EdgeThreshold == 5
ProximityThreshold == 5
HiddenWidth == 10
DragThreshold == 3
IndicatorSize == 30
StorageOffset == 30
ArrowOffset == 15

---------------------------------------------------------------------------
(* Geometry *)

Max(a, b) == IF a >= b THEN a ELSE b
Min(a, b) == IF a <= b THEN a ELSE b
Abs(a) == IF a >= 0 THEN a ELSE -a

Pt(x, y) == [x |-> x, y |-> y]

\* an optional point or widget: has = FALSE when the attribute is absent or None
NoPos == [has |-> FALSE, x |-> 0, y |-> 0]
SomePos(p) == [has |-> TRUE, x |-> p.x, y |-> p.y]
NoWidget == [has |-> FALSE, x |-> 0, y |-> 0, dir |-> "none"]
Widget(direction, x, y) == [has |-> TRUE, x |-> x, y |-> y, dir |-> direction]

\* QRect accessors of a display rectangle [left, top, width, height]
RectRight(r) == r.left + r.width - 1
RectBottom(r) == r.top + r.height - 1

\* the rectangle [x, x+w-1] x [y, y+h-1] lies inside the display rectangle
Contained(geo, x, y, w, h) ==
    /\ geo.left <= x
    /\ x + w - 1 <= RectRight(geo)
    /\ geo.top <= y
    /\ y + h - 1 <= RectBottom(geo)

\* _clamp_to_screen without the lower bound on x
ClampToScreenNoLeft(geo, w, h, x, y) ==
    Pt(Min(x, RectRight(geo) - w + 1),
       Max(geo.top, Min(y, RectBottom(geo) - h + 1)))

\* _clamp_to_screen(x, y) on the display geo for a panel of size w x h
ClampToScreen(geo, w, h, x, y) ==
    Pt(Max(geo.left, Min(x, RectRight(geo) - w + 1)),
       Max(geo.top, Min(y, RectBottom(geo) - h + 1)))

\* _stick_to_nearest_edge with strict comparisons against the threshold
StickToNearestEdgeStrict(geo, w, x, y) ==
    LET left == x - geo.left
        right == RectRight(geo) - (x + w - 1)
    IN  IF left < EdgeThreshold
          THEN [side |-> "left", x |-> geo.left, y |-> y, stuck |-> TRUE]
        ELSE IF right < EdgeThreshold
          THEN [side |-> "right", x |-> RectRight(geo) - w + 1, y |-> y, stuck |-> TRUE]
        ELSE [side |-> "none", x |-> x, y |-> y, stuck |-> FALSE]

\* _stick_to_nearest_edge with stick-to-edge enabled: the edge decision and the
\* panel's position after it, for a panel of width w at (x, y) on display geo
StickToNearestEdge(geo, w, x, y) ==
    LET left == x - geo.left
        right == RectRight(geo) - (x + w - 1)
    IN  IF left <= EdgeThreshold
          THEN [side |-> "left", x |-> geo.left, y |-> y, stuck |-> TRUE]
        ELSE IF right <= EdgeThreshold
          THEN [side |-> "right", x |-> RectRight(geo) - w + 1, y |-> y, stuck |-> TRUE]
        ELSE [side |-> "none", x |-> x, y |-> y, stuck |-> FALSE]

\* the edge decision of _check_edge_proximity with auto-hide enabled, for a
\* panel of width w at x when the primary display is screen
CheckEdgeSide(screen, w, x) ==
    IF x <= ProximityThreshold THEN "left"
    ELSE IF x + w >= screen.width - ProximityThreshold THEN "right"
    ELSE "none"

---------------------------------------------------------------------------
(* The environment: one display, the panel's size, the pointer *)

\* QApplication.primaryScreen().availableGeometry()
PrimaryScreen == [left |-> 0, top |-> 0, width |-> 40, height |-> 24]

\* QGuiApplication.screenAt(point) or QApplication.primaryScreen()
ScreenAt(p) == PrimaryScreen

\* self.width(), self.height()
PanelSize == [w |-> 12, h |-> 8]

\* the pointer's offset inside the panel at a press
Grab == Pt(9, 3)

\* the pointer positions of move events
PointerPoints ==
    { Pt(1, 7), Pt(12, 7), Pt(17, 7), Pt(39, 7) }

\* the positions a drag may bring the panel to: the pointer holds it at Grab
PanelPositions == { Pt(c.x - Grab.x, c.y - Grab.y) : c \in PointerPoints }

\* persisted positions found at start-up: one saved left of the display
\* (it starts the panel flush left), one inside, one beyond the right edge
StoredPositions == { Pt(-1, 4), Pt(8, 4), Pt(100, 4) }

\* values delivered by float_position change events
PositionValues == { 0, 100 }

\* the number of presses on the panel, clicks on an indicator and
\* configuration-change events in one run
MaxEvents == 3

\* one more of these events
UserEvent == /\ events < MaxEvents
             /\ events' = events + 1

Center(p) == Pt(p.x + PanelSize.w \div 2, p.y + PanelSize.h \div 2)

---------------------------------------------------------------------------
(* The panel's geometry animation, self.animation *)

NoAnim == [running |-> FALSE, kind |-> "none", side |-> "none",
           to |-> Pt(0, 0), wy |-> 0]

\* a QPropertyAnimation on the panel's geometry that has been started
StartAnim(kind, side, to, wy) ==
    [running |-> TRUE, kind |-> kind, side |-> side, to |-> to, wy |-> wy]

\* the history of the press in progress: none, a press that has stayed within
\* 3 px of its press point with the long-press timer still running, or such a
\* press that has just been released
NoClick == [st |-> "none", x |-> 0, y |-> 0]
Pressed(p) == [st |-> "pressed", x |-> p.x, y |-> p.y]
Clicked == [st |-> "clicked", x |-> 0, y |-> 0]

---------------------------------------------------------------------------
(* Helpers of the handlers *)

\* _schedule_retract: the retract timer after the call
ScheduleRetract(timer) ==
    IF ~cfg.stick_to_edge THEN timer
    ELSE IF cfg.retract_seconds > 0 THEN TRUE
    ELSE timer

\* _expand_from_edge: the panel's position after the call
ExpandFromEdge ==
    LET geo == ScreenAt(Center(pos))
    IN  IF pos.x < geo.left THEN Pt(geo.left, pos.y)
        ELSE IF pos.x + PanelSize.w > RectRight(geo)
          THEN Pt(RectRight(geo) - PanelSize.w + 1, pos.y)
        ELSE pos

\* _check_edge_proximity: what it leaves in the fields it writes
CheckEdgeProximity ==
    LET screen == PrimaryScreen
        W == PanelSize.w
        keep == IF original_position.has THEN original_position ELSE SomePos(pos)
        visible == pos.x >= screen.left /\ pos.x + W - 1 <= RectRight(screen)
        began == IF visible THEN SomePos(pos)
                 ELSE IF retracted THEN collapse_from
                 ELSE NoPos
    IN  IF ~cfg.auto_hide
          THEN [anim |-> NoAnim, original_position |-> original_position,
                retracted |-> retracted, saved |-> saved, from |-> collapse_from]
        ELSE IF pos.x <= ProximityThreshold
          THEN [anim |-> StartAnim("collapse", "left",
                                   Pt(-W + HiddenWidth, pos.y), pos.y),
                original_position |-> keep,
                retracted |-> retracted, saved |-> saved, from |-> began]
        ELSE IF pos.x + W >= screen.width - ProximityThreshold
          THEN [anim |-> StartAnim("collapse", "right",
                                   Pt(screen.width - HiddenWidth, pos.y), pos.y),
                original_position |-> keep,
                retracted |-> retracted, saved |-> saved, from |-> began]
        ELSE [anim |-> NoAnim, original_position |-> NoPos,
              retracted |-> FALSE,
              saved |-> IF ~retracted THEN pos ELSE saved, from |-> NoPos]

\* the part of a handler that is a call of _check_edge_proximity
RunCheck ==
    LET r == CheckEdgeProximity
    IN  /\ anim' = r.anim
        /\ indicator' = "none"
        /\ original_position' = r.original_position
        /\ retracted' = r.retracted
        /\ saved' = r.saved
        /\ collapse_from' = r.from

\* _auto_hide_window, run with self._auto_hide_timer in state t
AutoHideWindow(t) ==
    IF cfg.auto_hide
      THEN /\ auto_hide_timer' = IF t = "active" THEN "idle" ELSE t
           /\ RunCheck
      ELSE /\ auto_hide_timer' = t
           /\ UNCHANGED << anim, indicator, original_position, retracted, saved,
                           collapse_from >>

---------------------------------------------------------------------------
(* The geometry functions run on their own: a display rectangle, a panel    *)
(* size and a position go in, the function's result comes out               *)

\* availableGeometry() of the displays the functions are run on
ProbeDisplays ==
    { [left |-> 0, top |-> 0, width |-> 40, height |-> 24],
      [left |-> -30, top |-> 5, width |-> 14, height |-> 10],
      [left |-> 40, top |-> -3, width |-> 20, height |-> 12] }

\* self.width(), self.height() of the panels the functions are run on
ProbeSizes == { [w |-> 12, h |-> 8], [w |-> 16, h |-> 12], [w |-> 3, h |-> 2] }

\* how far outside the display the positions handed to the functions lie
ProbeReach == 7

NoStick == [side |-> "none", x |-> 0, y |-> 0, stuck |-> FALSE]

NoProbe == [pc |-> "off", geo |-> PrimaryScreen, w |-> 0, h |-> 0, x |-> 0, y |-> 0,
            out |-> Pt(0, 0), first |-> NoStick, second |-> NoStick,
            primary |-> PrimaryScreen, check |-> "none"]

ProbeInputs ==
    { [pc |-> "input", geo |-> g, w |-> sz.w, h |-> sz.h, x |-> g.left + dx,
       y |-> g.top + dy, out |-> Pt(0, 0), first |-> NoStick, second |-> NoStick,
       primary |-> PrimaryScreen, check |-> "none"] :
        g \in ProbeDisplays, sz \in ProbeSizes,
        dx \in (0 - ProbeReach) .. (40 + ProbeReach),
        dy \in {0 - ProbeReach, -1, 0, 1, 4, 5, 11, 12, 16, ProbeReach + 24} }

---------------------------------------------------------------------------
(* The button bar built on its own: _map_button_control turns the stored   *)
(* index into the list of actions, _build_ui hands each button to          *)
(* _add_button                                                             *)

\* the table of _map_button_control
Combos ==
    << << "roll_call" >>,
       << "quick_draw" >>,
       << "instant_draw" >>,
       << "custom_draw" >>,
       << "lottery" >>,
       << "roll_call", "quick_draw" >>,
       << "roll_call", "custom_draw" >>,
       << "roll_call", "lottery" >>,
       << "quick_draw", "custom_draw" >>,
       << "quick_draw", "lottery" >>,
       << "custom_draw", "lottery" >>,
       << "roll_call", "quick_draw", "custom_draw" >>,
       << "roll_call", "quick_draw", "lottery" >>,
       << "roll_call", "custom_draw", "lottery" >>,
       << "quick_draw", "custom_draw", "lottery" >>,
       << "roll_call", "quick_draw", "custom_draw", "lottery" >> >>

\* the table read without the step from Python's index 0 to the first row
MapButtonControlShifted(idx) ==
    IF idx < 1 \/ idx > Len(Combos) THEN Combos[1] ELSE Combos[idx]

\* the table read with an index beyond either end taken to the nearest row
MapButtonControlNearest(idx) ==
    IF idx < 0 THEN Combos[1]
    ELSE IF idx >= Len(Combos) THEN Combos[Len(Combos)]
    ELSE Combos[idx + 1]

\* _map_button_control(idx): Python's combos[idx] is the row idx + 1 here
MapButtonControl(idx) ==
    IF idx < 0 \/ idx >= Len(Combos) THEN Combos[1] ELSE Combos[idx + 1]

\* the row split taken as total // 2
AddButtonFloor(placement, index, total) ==
    IF placement = 1 THEN "container"
    ELSE IF placement = 2 THEN "container"
    ELSE IF index < total \div 2 THEN "top"
    ELSE "bottom"

\* _add_button(btn, index, total): the layout the button is appended to
AddButton(placement, index, total) ==
    IF placement = 1 THEN "container"
    ELSE IF placement = 2 THEN "container"
    ELSE IF index < (total + 1) \div 2 THEN "top"
    ELSE "bottom"

\* how far outside the table the indexes handed to _map_button_control lie
IndexReach == 2

\* floating_window_placement: 0 split rows, 1 vertical, 2 horizontal
Placements == {0, 1, 2}

\* a stored setting value: an integer, or nothing stored (None)
Stored(v) == [has |-> TRUE, v |-> v]
Missing == [has |-> FALSE, v |-> 0]

\* int(value or 0) of a stored value
IntOrZero(stored) == IF ~stored.has \/ stored.v = 0 THEN 0 ELSE stored.v

NoBar == [pc |-> "off", stored |-> Stored(0), idx |-> 0, placement |-> 0,
          spec |-> << >>, added |-> 0,
          top |-> << >>, bottom |-> << >>, container |-> << >>]

\* one turn of the loop of _build_ui / rebuild_ui on the bar b:
\* _add_button(btn, i, len(self._buttons_spec))
AddNext(b) ==
    LET i == b.added
        row == AddButton(b.placement, i, Len(b.spec))
    IN  [b EXCEPT ![row] = Append(b[row], b.spec[i + 1]), !.added = i + 1]

RECURSIVE AddAll(_)
\* the whole loop
AddAll(b) == IF b.added >= Len(b.spec) THEN b ELSE AddAll(AddNext(b))

\* rebuild_ui (and _build_ui at construction): the rows are emptied and every
\* button of the list is added again
RebuildUi(placement, idx, spec) ==
    AddAll([NoBar EXCEPT !.pc = "mapped", !.idx = idx, !.placement = placement,
                         !.spec = spec])

BarInputs ==
    { [NoBar EXCEPT !.pc = "input", !.stored = v, !.placement = p] :
        v \in { Stored(i) : i \in (0 - IndexReach) .. (Len(Combos) - 1 + IndexReach) }
                  \cup { Missing },
        p \in Placements }

---------------------------------------------------------------------------
(* A collapsed indicator on its own: the storage window with its           *)
(* _on_storage_* handlers, the arrow widget with DraggableWidget's mouse   *)
(* handlers                                                                *)

\* the display the indicator is dragged on: tall enough for the three snap
\* zones of _smart_snap_to_edge to be apart
HandleDisplay == [left |-> 0, top |-> 0, width |-> 40, height |-> 300]

\* snap_threshold of _smart_snap_to_edge
SnapThreshold == 50

\* margin of the top and bottom anchors of _smart_snap_to_edge
SnapMargin == 10

\* drag threshold of _on_storage_move
StorageDragThreshold == 3

\* drag threshold of DraggableWidget.mouseMoveEvent
WidgetDragThreshold == 5

\* presses on the indicator in one run
MaxPresses == 2

\* self.y() of the panels whose collapse creates the indicator
HandlePanelYs == { 30, 126 }

\* event.globalY() of the pointer events on the indicator
HandlePointerYs == { 20, 120, 123, 124, 126, 160, 210, 290 }

NoHandle ==
    [kind |-> "none", x |-> 0, y |-> 0, x0 |-> 0, y0 |-> 0, fixed_x |-> 0,
     py |-> 0, down |-> FALSE, start |-> 0, original_y |-> 0,
     dragging |-> FALSE, was_dragging |-> FALSE, long |-> FALSE, timer |-> FALSE,
     snapping |-> FALSE, snap_to |-> 0, released |-> "none", rel_x |-> 0, rel_y |-> 0,
     expanded |-> FALSE, presses |-> 0]

---------------------------------------------------------------------------
(* Construction: __init__, _init_settings, _apply_position *)

\* floating_window_draggable as stored: nothing, True or False
StoredFlags == { Missing, Stored(TRUE), Stored(FALSE) }

\* int(value or default) of a stored integer: 0 is falsy
IntOr(value, default) == IF value = 0 THEN default ELSE value

\* bool(value or True) of a stored flag
BoolOrTrue(stored) == IF stored.has /\ stored.v = TRUE THEN TRUE ELSE TRUE

\* the state after __init__ when float_position holds one of the positions
InitOverlayAt(positions) ==
    /\ \E s \in BOOLEAN, style \in {0, 1}, d \in StoredFlags :
          cfg = [stick_to_edge |-> s, auto_hide |-> s, retract_seconds |-> 5,
                 draggable |-> BoolOrTrue(d), indicator_style |-> style,
                 opacity |-> 80, long_press_ms |-> 500, display_style |-> 0]
    /\ \E p \in positions :
          /\ saved = p
          /\ pos = ClampToScreen(ScreenAt(Center(Pt(0, 0))),
                                 PanelSize.w, PanelSize.h,
                                 IntOr(p.x, 100), IntOr(p.y, 100))
    /\ dragging = FALSE
    /\ press_pos = Pt(0, 0)
    /\ grab = "none"
    /\ inside = FALSE
    /\ drag_timer = FALSE
    /\ retract_timer = FALSE
    /\ auto_hide_timer = "absent"
    /\ hide_shots = 0
    /\ check_shots = 0
    /\ anim = NoAnim
    /\ storage_anim = FALSE
    /\ original_position = NoPos
    /\ retracted = FALSE
    /\ last_stuck = FALSE
    /\ indicator = "none"
    /\ storage_window = NoWidget
    /\ arrow_widget = NoWidget
    /\ gesture = NoClick
    /\ collapse_from = NoPos
    /\ events = 0
    /\ stray = NoAnim

InitOverlay == InitOverlayAt(StoredPositions)

Init ==
    /\ InitOverlay
    /\ probe = NoProbe
    /\ bar = RebuildUi(0, 0, MapButtonControl(0))
    /\ handle = NoHandle

---------------------------------------------------------------------------
(* Pointer events on the panel: mousePressEvent / mouseMoveEvent /        *)
(* mouseReleaseEvent of the window, eventFilter for its children          *)

\* mousePressEvent, and eventFilter on MouseButtonPress (left button)
MousePress ==
    /\ UserEvent
    /\ grab = "none"
    /\ inside
    /\ pos.x + Grab.x >= PrimaryScreen.left
    /\ pos.x + Grab.x <= RectRight(PrimaryScreen)
    /\ grab' = "left"
    /\ IF cfg.draggable
         THEN /\ press_pos' = Pt(pos.x + Grab.x, pos.y + Grab.y)
              /\ dragging' = FALSE
              /\ drag_timer' = TRUE
              /\ gesture' = Pressed(Pt(pos.x + Grab.x, pos.y + Grab.y))
         ELSE /\ gesture' = NoClick
              /\ UNCHANGED << press_pos, dragging, drag_timer >>
    /\ UNCHANGED << pos, inside, retract_timer, auto_hide_timer, hide_shots,
                    check_shots, anim, storage_anim, original_position, retracted,
                    last_stuck, indicator, storage_window, arrow_widget, cfg, saved,
                    probe, bar, handle, stray, collapse_from >>

\* _begin_drag as the slot of _drag_timer.timeout
DragTimerTimeout ==
    /\ drag_timer
    /\ drag_timer' = FALSE
    /\ dragging' = TRUE
    /\ gesture' = NoClick
    /\ UNCHANGED << pos, press_pos, grab, inside, retract_timer, auto_hide_timer,
                    hide_shots, check_shots, anim, storage_anim, original_position,
                    retracted, last_stuck, indicator, storage_window, arrow_widget,
                    cfg, saved, events, probe, bar, handle, stray,
                    collapse_from >>

\* the movement threshold one pixel too low
ExceedsThresholdLow(d) ==
    Abs(d.x) >= DragThreshold - 1 \/ Abs(d.y) >= DragThreshold - 1

\* the movement threshold taken strictly
ExceedsThresholdStrict(d) == Abs(d.x) > DragThreshold \/ Abs(d.y) > DragThreshold

\* the movement threshold of mouseMoveEvent / eventFilter
ExceedsThreshold(d) == Abs(d.x) >= DragThreshold \/ Abs(d.y) >= DragThreshold

\* the pointer at cur is less than 3 px from the point at
WithinClick(at, cur) == Abs(cur.x - at.x) < 3 /\ Abs(cur.y - at.y) < 3

\* mouseMoveEvent, and eventFilter on MouseMove, with the left button down
MouseMove ==
    /\ grab # "none"
    /\ \E cur \in PointerPoints :
          LET d == Pt(cur.x - press_pos.x, cur.y - press_pos.y)
              drag == dragging \/ ExceedsThreshold(d)
          IN  /\ IF cfg.draggable /\ drag
                THEN /\ Pt(pos.x + d.x, pos.y + d.y) \in PanelPositions
                     /\ dragging' = TRUE
                     /\ pos' = Pt(pos.x + d.x, pos.y + d.y)
                     /\ press_pos' = cur
                     /\ retract_timer' = FALSE
                ELSE UNCHANGED << dragging, pos, press_pos, retract_timer >>
              /\ gesture' = IF gesture.st = "pressed" /\ WithinClick(gesture, cur)
                              THEN gesture ELSE NoClick
    /\ UNCHANGED << grab, inside, drag_timer, auto_hide_timer, hide_shots,
                    check_shots, anim, storage_anim, original_position, retracted,
                    last_stuck, indicator, storage_window, arrow_widget, cfg, saved,
                    events, probe, bar, handle, stray,
                    collapse_from >>

\* the end of a drag in mouseReleaseEvent / eventFilter: _stick_to_nearest_edge,
\* then _schedule_retract or _clear_indicator, then _save_position
DragEnd ==
    LET st == IF cfg.stick_to_edge
                THEN StickToNearestEdge(ScreenAt(Center(pos)), PanelSize.w, pos.x, pos.y)
                ELSE [side |-> "none", x |-> pos.x, y |-> pos.y, stuck |-> last_stuck]
        shown == IF cfg.stick_to_edge /\ st.side # "none" /\ ~cfg.auto_hide
                   THEN st.side ELSE indicator
    IN  /\ dragging' = FALSE
        /\ pos' = Pt(st.x, st.y)
        /\ last_stuck' = st.stuck
        /\ retract_timer' = IF st.stuck THEN ScheduleRetract(retract_timer)
                            ELSE retract_timer
        /\ indicator' = IF st.stuck THEN shown ELSE "none"
        /\ saved' = Pt(st.x, st.y)

\* mouseReleaseEvent (the window, or its container once the filter passed the event on)
\* and eventFilter on MouseButtonRelease (a child button), left button
MouseRelease ==
    /\ grab # "none"
    /\ grab' = "none"
    /\ gesture' = IF gesture.st = "pressed" THEN Clicked ELSE NoClick
    /\ \E target \in {"window", "child"} :
       IF target = "window"
         THEN /\ drag_timer' = FALSE
              /\ IF cfg.draggable /\ dragging
                   THEN DragEnd
                   ELSE UNCHANGED << dragging, pos, last_stuck, retract_timer,
                                   indicator, saved >>
              /\ check_shots' = IF cfg.auto_hide THEN check_shots + 1 ELSE check_shots
         ELSE IF ~cfg.draggable
           THEN UNCHANGED << drag_timer, dragging, pos, last_stuck, retract_timer,
                                indicator, saved, check_shots >>
         ELSE /\ drag_timer' = FALSE
              /\ IF dragging
                   THEN /\ DragEnd
                        /\ check_shots' = IF cfg.auto_hide THEN check_shots + 1
                                          ELSE check_shots
                   ELSE UNCHANGED << dragging, pos, last_stuck, retract_timer,
                                   indicator, saved, check_shots >>
    /\ UNCHANGED << press_pos, inside, auto_hide_timer, hide_shots, anim,
                    storage_anim, original_position, retracted, storage_window,
                    arrow_widget, cfg, events, probe, bar, handle, stray,
                    collapse_from >>

\* enterEvent
EnterEvent ==
    /\ ~inside
    /\ inside' = TRUE
    /\ auto_hide_timer' = "absent"
    /\ UNCHANGED << gesture, pos, dragging, press_pos, grab, drag_timer, retract_timer,
                    hide_shots, check_shots, anim, storage_anim, original_position,
                    retracted, last_stuck, indicator, storage_window, arrow_widget,
                    cfg, saved, events, probe, bar, handle, stray,
                    collapse_from >>

\* leaveEvent
LeaveEvent ==
    /\ inside
    /\ grab = "none"
    /\ inside' = FALSE
    /\ retract_timer' = IF retracted THEN ScheduleRetract(retract_timer)
                        ELSE retract_timer
    /\ auto_hide_timer' = IF cfg.auto_hide /\ ~retracted THEN "active"
                          ELSE auto_hide_timer
    /\ UNCHANGED << gesture, pos, dragging, press_pos, grab, drag_timer, hide_shots,
                    check_shots, anim, storage_anim, original_position, retracted,
                    last_stuck, indicator, storage_window, arrow_widget, cfg, saved,
                    events, probe, bar, handle, stray,
                    collapse_from >>

---------------------------------------------------------------------------
(* Timers *)

\* _retract_timer expires: no slot is connected to its timeout signal
RetractTimerTimeout ==
    /\ retract_timer
    /\ retract_timer' = FALSE
    /\ UNCHANGED << gesture, pos, dragging, press_pos, grab, inside, drag_timer,
                    auto_hide_timer, hide_shots, check_shots, anim, storage_anim,
                    original_position, retracted, last_stuck, indicator,
                    storage_window, arrow_widget, cfg, saved, events, probe, bar, handle, stray,
                    collapse_from >>

\* self._auto_hide_timer expires (single shot): _auto_hide_window
AutoHideTimerTimeout ==
    /\ auto_hide_timer = "active"
    /\ AutoHideWindow("idle")
    /\ UNCHANGED << gesture, pos, dragging, press_pos, grab, inside, drag_timer,
                    retract_timer, hide_shots, check_shots, storage_anim, last_stuck,
                    storage_window, arrow_widget, cfg, events, probe, bar, handle, stray >>

\* a QTimer.singleShot(retract_time, self._auto_hide_window) expires, or an
\* _auto_hide_timer that was replaced while active
HideShotTimeout ==
    /\ hide_shots > 0
    /\ hide_shots' = hide_shots - 1
    /\ AutoHideWindow(auto_hide_timer)
    /\ UNCHANGED << gesture, pos, dragging, press_pos, grab, inside, drag_timer,
                    retract_timer, check_shots, storage_anim, last_stuck,
                    storage_window, arrow_widget, cfg, events, probe, bar, handle, stray >>

\* a QTimer.singleShot(100, self._check_edge_proximity) expires
CheckShotTimeout ==
    /\ check_shots > 0
    /\ check_shots' = check_shots - 1
    /\ RunCheck
    /\ UNCHANGED << gesture, pos, dragging, press_pos, grab, inside, drag_timer,
                    retract_timer, auto_hide_timer, hide_shots, storage_anim,
                    last_stuck, storage_window, arrow_widget, cfg, events, probe, bar, handle, stray >>

---------------------------------------------------------------------------
(* Animations and the collapsed indicators *)

\* the indicator on_animation_finished creates after a collapse toward side
\* that began with the panel at height wy
IndicatorAt(side, wy, offset) ==
    IF side = "left"
      THEN Widget("right", 0, wy + PanelSize.h \div 2 - offset)
      ELSE Widget("left", PrimaryScreen.width - IndicatorSize,
                  wy + PanelSize.h \div 2 - offset)

CollapsedIndicator(side, offset) == IndicatorAt(side, anim.wy, offset)

\* the collapse animation finishes: on_animation_finished of _check_edge_proximity
CollapseFinished ==
    /\ anim.running
    /\ anim.kind = "collapse"
    /\ pos' = anim.to
    /\ anim' = NoAnim
    /\ IF cfg.indicator_style = 0
         THEN /\ storage_window' = CollapsedIndicator(anim.side, StorageOffset)
              /\ storage_anim' = FALSE
              /\ UNCHANGED arrow_widget
         ELSE /\ arrow_widget' = CollapsedIndicator(anim.side, ArrowOffset)
              /\ UNCHANGED << storage_window, storage_anim >>
    /\ retracted' = TRUE
    /\ UNCHANGED << gesture, dragging, press_pos, grab, inside, drag_timer,
                    retract_timer,
                    auto_hide_timer, hide_shots, check_shots, original_position,
                    last_stuck, indicator, cfg, saved, events, probe, bar, handle, stray,
                    collapse_from >>

\* a click (or right click, or double click) on the storage window: _expand_window
ExpandWindow ==
    /\ UserEvent
    /\ storage_window.has
    /\ storage_anim' = TRUE
    /\ anim' = NoAnim
    /\ UNCHANGED << gesture, pos, dragging, press_pos, grab, inside, drag_timer,
                    retract_timer, auto_hide_timer, hide_shots, check_shots,
                    original_position, retracted, last_stuck, indicator,
                    storage_window, arrow_widget, cfg, saved, probe, bar, handle, stray,
                    collapse_from >>

\* the panel's target in on_storage_animation_finished; has = FALSE when neither
\* branch binds target_x
ExpandTarget ==
    LET screen == PrimaryScreen
    IN  IF original_position.has THEN original_position
        ELSE IF pos.x < screen.left THEN SomePos(Pt(screen.left, pos.y))
        ELSE IF pos.x + PanelSize.w > RectRight(screen)
          THEN SomePos(Pt(RectRight(screen) - PanelSize.w + 1, pos.y))
        ELSE NoPos

\* the storage window's exit animation finishes: on_storage_animation_finished
StorageAnimFinished ==
    /\ storage_anim
    /\ storage_anim' = FALSE
    /\ storage_window' = NoWidget
    /\ anim' = IF ExpandTarget.has
                 THEN StartAnim("expand", "none", Pt(ExpandTarget.x, ExpandTarget.y), 0)
                 ELSE anim
    /\ stray' \in IF ExpandTarget.has /\ anim.running /\ ~stray.running
                    THEN {anim, NoAnim}
                    ELSE {stray}
    /\ UNCHANGED << gesture, pos, dragging, press_pos, grab, inside, drag_timer,
                    retract_timer, auto_hide_timer, hide_shots, check_shots,
                    original_position, retracted, last_stuck, indicator,
                    arrow_widget, cfg, saved, events, probe, bar, handle, collapse_from >>

\* the panel's return animation finishes: on_main_animation_finished
ExpandFinished ==
    /\ anim.running
    /\ anim.kind = "expand"
    /\ pos' = anim.to
    /\ anim' = NoAnim
    /\ retracted' = FALSE
    /\ collapse_from' = NoPos
    /\ auto_hide_timer' = "active"
    /\ hide_shots' = IF auto_hide_timer = "active" THEN hide_shots + 1 ELSE hide_shots
    /\ UNCHANGED << gesture, dragging, press_pos, grab, inside, drag_timer,
                    retract_timer,
                    check_shots, storage_anim, original_position, last_stuck,
                    indicator, storage_window, arrow_widget, cfg, saved, events,
                    probe, bar, handle, stray >>

\* an animation that was running when on_storage_animation_finished replaced
\* self.animation reaches its end value: the slot connected to its finished
\* signal runs (on_animation_finished for a collapse, none for a show)
StrayFinished ==
    /\ stray.running
    /\ pos' = stray.to
    /\ stray' = NoAnim
    /\ IF stray.kind = "collapse"
         THEN /\ IF cfg.indicator_style = 0
                   THEN /\ storage_window' =
                              IndicatorAt(stray.side, stray.wy, StorageOffset)
                        /\ storage_anim' = FALSE
                        /\ UNCHANGED arrow_widget
                   ELSE /\ arrow_widget' =
                              IndicatorAt(stray.side, stray.wy, ArrowOffset)
                        /\ UNCHANGED << storage_window, storage_anim >>
              /\ retracted' = TRUE
         ELSE UNCHANGED << storage_window, storage_anim, arrow_widget, retracted >>
    /\ UNCHANGED << gesture, dragging, press_pos, grab, inside, drag_timer,
                    retract_timer, auto_hide_timer, hide_shots, check_shots, anim,
                    original_position, last_stuck, indicator, cfg, saved, events,
                    probe, bar, handle, collapse_from >>

\* window_y of _show_hidden_window for an arrow widget at height ay
ShowHiddenY(ay) ==
    LET screen == PrimaryScreen
        wy == ay + IndicatorSize \div 2 - PanelSize.h \div 2
    IN  IF wy < screen.top THEN screen.top
        ELSE IF wy + PanelSize.h > RectBottom(screen)
          THEN RectBottom(screen) - PanelSize.h
        ELSE wy

\* a click on the arrow widget: _show_hidden_window(direction)
ShowHiddenWindow ==
    /\ UserEvent
    /\ arrow_widget.has
    /\ anim' = StartAnim("show", "none",
                         Pt(IF arrow_widget.dir = "right" THEN PrimaryScreen.left
                            ELSE RectRight(PrimaryScreen) - PanelSize.w + 1,
                            ShowHiddenY(arrow_widget.y)), 0)
    /\ arrow_widget' = NoWidget
    /\ hide_shots' = hide_shots + 1
    /\ UNCHANGED << gesture, pos, dragging, press_pos, grab, inside, drag_timer,
                    retract_timer, auto_hide_timer, check_shots, storage_anim,
                    original_position, retracted, last_stuck, indicator,
                    storage_window, cfg, saved, probe, bar, handle, stray,
                    collapse_from >>

\* the animation started by _show_hidden_window finishes: no slot is connected
ShowFinished ==
    /\ anim.running
    /\ anim.kind = "show"
    /\ pos' = anim.to
    /\ anim' = NoAnim
    /\ collapse_from' = NoPos
    /\ UNCHANGED << gesture, dragging, press_pos, grab, inside, drag_timer,
                    retract_timer,
                    auto_hide_timer, hide_shots, check_shots, storage_anim,
                    original_position, retracted, last_stuck, indicator,
                    storage_window, arrow_widget, cfg, saved, events,
                    probe, bar, handle, stray >>

---------------------------------------------------------------------------
(* Configuration changes: _on_setting_changed *)

\* the keys that are copied into one field and do nothing else
SettingField ==
    \E f \in {"stick_to_edge", "draggable"}, v \in BOOLEAN :
       /\ UserEvent
       /\ cfg' = [cfg EXCEPT ![f] = v]
       /\ UNCHANGED << gesture, pos, dragging, press_pos, grab, inside, drag_timer,
                       retract_timer, auto_hide_timer, hide_shots, check_shots,
                       anim, storage_anim, original_position, retracted, last_stuck,
                       indicator, storage_window, arrow_widget, saved, probe, bar, handle, stray,
                       collapse_from >>

\* the recover seconds taken as a key that also restarts the retract timer
SettingNumberRearm ==
    \E f \in {"retract_seconds", "indicator_style"} :
       \E v \in IF f = "retract_seconds" THEN {0, 5} ELSE {0, 1} :
          /\ UserEvent
          /\ cfg' = [cfg EXCEPT ![f] = v]
          /\ retract_timer' = IF f = "retract_seconds" THEN v > 0 ELSE retract_timer
          /\ UNCHANGED << gesture, pos, dragging, press_pos, grab, inside, drag_timer,
                          auto_hide_timer, hide_shots, check_shots,
                          anim, storage_anim, original_position, retracted,
                          last_stuck, indicator, storage_window, arrow_widget, saved,
                          probe, bar, handle, stray, collapse_from >>

\* floating_window_stick_to_edge_recover_seconds, ..._display_style
SettingNumber ==
    \E f \in {"retract_seconds", "indicator_style"} :
       \E v \in IF f = "retract_seconds" THEN {0, 5} ELSE {0, 1} :
          /\ UserEvent
          /\ cfg' = [cfg EXCEPT ![f] = v]
          /\ UNCHANGED << gesture, pos, dragging, press_pos, grab, inside, drag_timer,
                          retract_timer, auto_hide_timer, hide_shots, check_shots,
                          anim, storage_anim, original_position, retracted,
                          last_stuck, indicator, storage_window, arrow_widget, saved,
                          probe, bar, handle, stray, collapse_from >>

\* floating_window_opacity (in percent), floating_window_long_press_duration:
\* float(value or 0.8), int(value or 500)
SettingScalar ==
    \E f \in {"opacity", "long_press_ms"} :
       \E v \in IF f = "opacity" THEN {0, 50} ELSE {0, 300} :
          /\ UserEvent
          /\ cfg' = [cfg EXCEPT ![f] = IF v # 0 THEN v
                                       ELSE IF f = "opacity" THEN 80 ELSE 500]
          /\ UNCHANGED << gesture, pos, dragging, press_pos, grab, inside, drag_timer,
                          retract_timer, auto_hide_timer, hide_shots, check_shots,
                          anim, storage_anim, original_position, retracted,
                          last_stuck, indicator, storage_window, arrow_widget, saved,
                          probe, bar, handle, stray, collapse_from >>

\* floating_window_placement, floating_window_display_style,
\* floating_window_button_control: the field is set and rebuild_ui runs
SettingLayout ==
    \E f \in {"placement", "display_style", "button_control"} :
       \E v \in IF f = "button_control" THEN {0, 11} ELSE {0, 1} :
          /\ UserEvent
          /\ cfg' = IF f = "display_style" THEN [cfg EXCEPT !.display_style = v]
                    ELSE cfg
          /\ bar' = IF f = "placement" THEN RebuildUi(v, bar.idx, bar.spec)
                    ELSE IF f = "button_control"
                      THEN RebuildUi(bar.placement, v, MapButtonControl(v))
                    ELSE RebuildUi(bar.placement, bar.idx, bar.spec)
          /\ UNCHANGED << gesture, pos, dragging, press_pos, grab, inside, drag_timer,
                          retract_timer, auto_hide_timer, hide_shots, check_shots,
                          anim, storage_anim, original_position, retracted,
                          last_stuck, indicator, storage_window, arrow_widget, saved,
                          probe, handle, stray, collapse_from >>

\* flash_window_side_switch
SettingSideSwitch ==
    \E v \in BOOLEAN :
       /\ UserEvent
       /\ cfg' = [cfg EXCEPT !.auto_hide = v]
       /\ IF v
            THEN /\ check_shots' = check_shots + 1
                 /\ UNCHANGED << storage_window, storage_anim, pos, retracted,
                                 indicator, collapse_from >>
            ELSE /\ storage_window' = NoWidget
                 /\ storage_anim' = FALSE
                 /\ IF retracted
                      THEN /\ pos' = ExpandFromEdge
                           /\ retracted' = FALSE
                           /\ indicator' = "none"
                           /\ collapse_from' = NoPos
                      ELSE UNCHANGED << pos, retracted, indicator, collapse_from >>
                 /\ UNCHANGED check_shots
       /\ UNCHANGED << gesture, dragging, press_pos, grab, inside, drag_timer,
                    retract_timer,
                       auto_hide_timer, hide_shots, anim, original_position,
                       last_stuck, arrow_widget, saved, probe, bar, handle, stray >>

\* float_position x / y
SettingPosition ==
    \E axis \in {"x", "y"}, v \in PositionValues :
       /\ UserEvent
       /\ pos' = IF axis = "x"
                   THEN ClampToScreen(ScreenAt(Center(pos)), PanelSize.w, PanelSize.h,
                                      IntOr(v, 0), pos.y)
                   ELSE ClampToScreen(ScreenAt(Center(pos)), PanelSize.w, PanelSize.h,
                                      pos.x, IntOr(v, 0))
       /\ UNCHANGED << gesture, dragging, press_pos, grab, inside, drag_timer,
                    retract_timer,
                       auto_hide_timer, hide_shots, check_shots, anim, storage_anim,
                       original_position, retracted, last_stuck, indicator,
                       storage_window, arrow_widget, cfg, saved, probe, bar, handle, stray,
                    collapse_from >>

---------------------------------------------------------------------------
(* The overlay's state machine *)

Next ==
    \/ MousePress
    \/ DragTimerTimeout
    \/ MouseMove
    \/ MouseRelease
    \/ EnterEvent
    \/ LeaveEvent
    \/ RetractTimerTimeout
    \/ AutoHideTimerTimeout
    \/ HideShotTimeout
    \/ CheckShotTimeout
    \/ CollapseFinished
    \/ ExpandWindow
    \/ StorageAnimFinished
    \/ ExpandFinished
    \/ ShowHiddenWindow
    \/ ShowFinished
    \/ StrayFinished
    \/ SettingField
    \/ SettingNumber
    \/ SettingSideSwitch
    \/ SettingPosition

Spec == Init /\ [][Next]_vars

---------------------------------------------------------------------------
(* The overlay under configuration changes: the keys of the section        *)
(* floating_window_management in _on_setting_changed, with a pointer that  *)
(* presses and releases but does not move while pressed                    *)

NextConfig ==
    \/ MousePress
    \/ DragTimerTimeout
    \/ MouseRelease
    \/ EnterEvent
    \/ LeaveEvent
    \/ RetractTimerTimeout
    \/ AutoHideTimerTimeout
    \/ HideShotTimeout
    \/ CheckShotTimeout
    \/ CollapseFinished
    \/ ExpandWindow
    \/ StorageAnimFinished
    \/ ExpandFinished
    \/ ShowHiddenWindow
    \/ ShowFinished
    \/ StrayFinished
    \/ SettingField
    \/ SettingNumber
    \/ SettingScalar
    \/ SettingLayout
    \/ SettingSideSwitch

SpecConfig == Init /\ [][NextConfig]_vars

---------------------------------------------------------------------------
(* The overlay left to its timers and animations: the pointer enters and   *)
(* leaves, the collapsed indicator is clicked, single-shot timers expire   *)
(* and started animations reach their end value                            *)

NextReveal ==
    \/ EnterEvent
    \/ LeaveEvent
    \/ RetractTimerTimeout
    \/ AutoHideTimerTimeout
    \/ HideShotTimeout
    \/ CollapseFinished
    \/ ExpandWindow
    \/ StorageAnimFinished
    \/ ExpandFinished
    \/ ShowHiddenWindow
    \/ ShowFinished

\* a started animation is not stopped by itself and a started single-shot
\* timer expires unless a handler stops it
FairReveal ==
    /\ WF_vars(CollapseFinished)
    /\ WF_vars(StorageAnimFinished)
    /\ WF_vars(ExpandFinished)
    /\ WF_vars(ShowFinished)
    /\ WF_vars(AutoHideTimerTimeout)
    /\ WF_vars(HideShotTimeout)
    /\ WF_vars(RetractTimerTimeout)

SpecReveal == Init /\ [][NextReveal]_vars /\ FairReveal

---------------------------------------------------------------------------
(* The overlay constructed at any persisted position of its row, then left *)
(* to its timers, animations and indicator clicks                          *)

\* how far beyond the display the persisted x may lie
StartReach == 3

\* float_position as persisted before the start
StartPositions ==
    { Pt(x, 4) : x \in (0 - StartReach) .. (PrimaryScreen.width + StartReach) }

InitStart ==
    /\ InitOverlayAt(StartPositions)
    /\ probe = NoProbe
    /\ bar = RebuildUi(0, 0, MapButtonControl(0))
    /\ handle = NoHandle

SpecStart == InitStart /\ [][NextReveal]_vars

---------------------------------------------------------------------------
(* The geometry functions on their own *)

InitGeom ==
    /\ InitOverlay
    /\ cfg.stick_to_edge
    /\ cfg.indicator_style = 0
    /\ saved = Pt(8, 4)
    /\ probe \in ProbeInputs
    /\ bar = NoBar
    /\ handle = NoHandle

\* _clamp_to_screen(x, y)
ProbeClamp ==
    /\ probe.pc = "input"
    /\ probe' = [probe EXCEPT !.pc = "clamped",
                              !.out = ClampToScreen(probe.geo, probe.w, probe.h,
                                                    probe.x, probe.y)]
    /\ UNCHANGED << overlay_vars, bar, handle >>

\* _stick_to_nearest_edge with stick-to-edge enabled
ProbeStick ==
    /\ probe.pc = "input"
    /\ probe' = [probe EXCEPT !.pc = "stuck",
                              !.first = StickToNearestEdge(probe.geo, probe.w,
                                                           probe.x, probe.y)]
    /\ UNCHANGED << overlay_vars, bar, handle >>

\* _stick_to_nearest_edge once more, on the geometry the first run left
ProbeStickAgain ==
    /\ probe.pc = "stuck"
    /\ probe' = [probe EXCEPT !.pc = "stuck twice",
                              !.second = StickToNearestEdge(probe.geo, probe.w,
                                                            probe.first.x, probe.first.y)]
    /\ UNCHANGED << overlay_vars, bar, handle >>

\* _check_edge_proximity on the geometry the release left; the display the
\* panel is on is the primary display or a secondary one next to it
ProbeCheck ==
    /\ probe.pc = "stuck"
    /\ \E primary \in {probe.geo, PrimaryScreen} :
          probe' = [probe EXCEPT !.pc = "checked",
                                 !.primary = primary,
                                 !.check = CheckEdgeSide(primary, probe.w, probe.first.x)]
    /\ UNCHANGED << overlay_vars, bar, handle >>

NextGeom ==
    \/ ProbeClamp
    \/ ProbeStick
    \/ ProbeStickAgain
    \/ ProbeCheck

SpecGeom == InitGeom /\ [][NextGeom]_vars

---------------------------------------------------------------------------
(* The button bar on its own *)

InitButtons ==
    /\ InitOverlay
    /\ cfg.stick_to_edge
    /\ cfg.indicator_style = 0
    /\ saved = Pt(8, 4)
    /\ probe = NoProbe
    /\ bar \in BarInputs
    /\ handle = NoHandle

\* self._buttons_spec = self._map_button_control(idx)
SetButtonsSpec ==
    /\ bar.pc = "input"
    /\ bar' = [bar EXCEPT !.pc = "mapped", !.idx = IntOrZero(bar.stored),
                           !.spec = MapButtonControl(IntOrZero(bar.stored))]
    /\ UNCHANGED << overlay_vars, probe, handle >>

\* one turn of the loop of _build_ui: _add_button(btn, i, len(self._buttons_spec))
BuildUiStep ==
    /\ bar.pc = "mapped"
    /\ bar.added < Len(bar.spec)
    /\ bar' = AddNext(bar)
    /\ UNCHANGED << overlay_vars, probe, handle >>

NextButtons ==
    \/ SetButtonsSpec
    \/ BuildUiStep

SpecButtons == InitButtons /\ [][NextButtons]_vars

---------------------------------------------------------------------------
(* Pointer gestures on the collapsed indicator                             *)

\* on_animation_finished creates the indicator of the configured style
CreateIndicator ==
    /\ handle.kind = "none"
    /\ handle.presses < MaxPresses
    /\ \E style \in {0, 1}, side \in {"left", "right"}, wy \in HandlePanelYs :
          LET w == IndicatorAt(side, wy, IF style = 0 THEN StorageOffset ELSE ArrowOffset)
          IN  handle' = [NoHandle EXCEPT
                            !.kind = IF style = 0 THEN "storage" ELSE "arrow",
                            !.x = w.x, !.y = w.y, !.x0 = w.x, !.y0 = w.y,
                            !.fixed_x = IF style = 0 THEN w.x ELSE 0,
                            !.presses = handle.presses]
    /\ UNCHANGED << overlay_vars, probe, bar >>

\* the pointer positions that are on the indicator
OnHandle == { py \in HandlePointerYs : handle.y <= py /\ py < handle.y + IndicatorSize }

\* _on_storage_press with the left button
OnStoragePress ==
    /\ handle.kind = "storage"
    /\ ~handle.down
    /\ handle.presses < MaxPresses
    /\ \E py \in OnHandle :
          handle' = [handle EXCEPT !.down = TRUE, !.py = py,
                                   !.start = py - handle.y,
                                   !.dragging = FALSE,
                                   !.released = "none",
                                   !.presses = handle.presses + 1]
    /\ UNCHANGED << overlay_vars, probe, bar >>

\* _on_storage_move while the left button is down
OnStorageMove ==
    /\ handle.kind = "storage"
    /\ handle.down
    /\ \E py \in HandlePointerYs :
          LET delta == (py - handle.y) - handle.start
              drag == handle.dragging \/ Abs(delta) > StorageDragThreshold
              new_y == Max(HandleDisplay.top,
                           Min(handle.y + delta,
                               RectBottom(HandleDisplay) - IndicatorSize))
          IN  handle' = [handle EXCEPT !.py = py,
                                       !.dragging = drag,
                                       !.x = IF drag THEN handle.fixed_x ELSE handle.x,
                                       !.y = IF drag THEN new_y ELSE handle.y]
    /\ UNCHANGED << overlay_vars, probe, bar >>

\* target_y of _smart_snap_to_edge for a storage window at height y
SmartSnapTarget(y) ==
    LET screen == HandleDisplay
        screen_center_y == (screen.top + RectBottom(screen)) \div 2
    IN  IF y < screen.top + SnapThreshold
          THEN screen.top + SnapMargin
        ELSE IF y + IndicatorSize > RectBottom(screen) - SnapThreshold
          THEN RectBottom(screen) - IndicatorSize - SnapMargin
        ELSE IF Abs(y + IndicatorSize \div 2 - screen_center_y) < SnapThreshold
          THEN screen_center_y - IndicatorSize \div 2
        ELSE y

\* _on_storage_release with the left button: a drag ends in
\* _smart_snap_to_edge, a click in _expand_window
OnStorageRelease ==
    /\ handle.kind = "storage"
    /\ handle.down
    /\ IF handle.dragging
         THEN handle' = [handle EXCEPT
                            !.down = FALSE, !.dragging = FALSE,
                            !.released = "drag", !.rel_x = handle.x, !.rel_y = handle.y,
                            !.snapping = SmartSnapTarget(handle.y) # handle.y,
                            !.snap_to = SmartSnapTarget(handle.y)]
         ELSE handle' = [NoHandle EXCEPT !.expanded = TRUE,
                                         !.released = "click",
                                         !.presses = handle.presses]
    /\ UNCHANGED << overlay_vars, probe, bar >>

\* snap_animation reaches its end value
SnapFinished ==
    /\ handle.snapping
    /\ ~handle.down
    /\ handle' = [handle EXCEPT !.snapping = FALSE, !.x = handle.fixed_x,
                                !.y = handle.snap_to]
    /\ UNCHANGED << overlay_vars, probe, bar >>

\* DraggableWidget.mousePressEvent with the left button
WidgetMousePress ==
    /\ handle.kind = "arrow"
    /\ ~handle.down
    /\ handle.presses < MaxPresses
    /\ \E py \in OnHandle :
          handle' = [handle EXCEPT !.down = TRUE, !.py = py, !.start = py,
                                   !.original_y = handle.y,
                                   !.long = FALSE, !.was_dragging = FALSE,
                                   !.timer = TRUE,
                                   !.released = "none",
                                   !.presses = handle.presses + 1]
    /\ UNCHANGED << overlay_vars, probe, bar >>

\* DraggableWidget._on_long_press: _long_press_timer expires
OnLongPress ==
    /\ handle.kind = "arrow"
    /\ handle.timer
    /\ handle' = [handle EXCEPT !.timer = FALSE, !.long = TRUE]
    /\ UNCHANGED << overlay_vars, probe, bar >>

\* DraggableWidget.mouseMoveEvent while the left button is down; late: more
\* than 100 ms have passed since the press
WidgetMouseMove ==
    /\ handle.kind = "arrow"
    /\ handle.down
    /\ \E py \in HandlePointerYs, late \in BOOLEAN :
          LET drag == \/ handle.long
                      \/ late /\ Abs(py - handle.start) > WidgetDragThreshold
              new_y == handle.original_y + (py - handle.start)
          IN  handle' =
                IF drag
                  THEN [handle EXCEPT
                           !.py = py, !.dragging = TRUE, !.was_dragging = TRUE,
                           !.timer = IF ~handle.dragging /\ ~handle.long
                                       THEN FALSE ELSE handle.timer,
                           !.x = handle.fixed_x, !.y = new_y]
                  ELSE [handle EXCEPT !.py = py]
    /\ UNCHANGED << overlay_vars, probe, bar >>

\* new_mouse_release with the left button: DraggableWidget.mouseReleaseEvent,
\* then handle_click, which calls _show_hidden_window unless the gesture
\* was a drag
WidgetMouseRelease ==
    /\ handle.kind = "arrow"
    /\ handle.down
    /\ IF handle.was_dragging
         THEN handle' = [handle EXCEPT
                            !.down = FALSE, !.dragging = FALSE, !.timer = FALSE,
                            !.released = "drag", !.rel_x = handle.x, !.rel_y = handle.y]
         ELSE handle' = [NoHandle EXCEPT !.expanded = TRUE,
                                         !.released = "click",
                                         !.presses = handle.presses]
    /\ UNCHANGED << overlay_vars, probe, bar >>

\* _on_storage_release with the right button
OnStorageRightRelease ==
    /\ handle.kind = "storage"
    /\ handle.released # "right"
    /\ IF ~handle.dragging
         THEN handle' = [NoHandle EXCEPT !.expanded = TRUE,
                                         !.released = "right",
                                         !.presses = handle.presses]
         ELSE handle' = [handle EXCEPT !.released = "right"]
    /\ UNCHANGED << overlay_vars, probe, bar >>

\* new_mouse_release with the right button: DraggableWidget.mouseReleaseEvent
\* and the wrapper both act on the left button only
WidgetRightRelease ==
    /\ handle.kind = "arrow"
    /\ handle.released # "right"
    /\ handle' = [handle EXCEPT !.released = "right"]
    /\ UNCHANGED << overlay_vars, probe, bar >>

NextHandle ==
    \/ CreateIndicator
    \/ OnStoragePress
    \/ OnStorageMove
    \/ OnStorageRelease
    \/ SnapFinished
    \/ WidgetMousePress
    \/ OnLongPress
    \/ WidgetMouseMove
    \/ WidgetMouseRelease
    \/ OnStorageRightRelease
    \/ WidgetRightRelease

InitHandle ==
    /\ InitOverlay
    /\ cfg.stick_to_edge
    /\ cfg.indicator_style = 0
    /\ saved = Pt(8, 4)
    /\ probe = NoProbe
    /\ bar = NoBar
    /\ handle = NoHandle

SpecHandle == InitHandle /\ [][NextHandle]_vars

---------------------------------------------------------------------------
(* The overlay's DockState, read off the fields the handlers keep *)

\* a collapsed indicator exists: self.storage_window or self.arrow_widget
IndicatorExists == storage_window.has \/ arrow_widget.has

\* the teardown of the indicator or the panel's return animation is under way
Expanding ==
    storage_anim \/ (anim.running /\ anim.kind \in {"expand", "show"})

\* the animation that conceals the panel is under way
Collapsing == anim.running /\ anim.kind = "collapse"

\* the panel is docked: the last release stuck it to an edge, or it stands
\* within the proximity threshold of the left or right edge
Docked ==
    \/ last_stuck
    \/ pos.x <= ProximityThreshold
    \/ pos.x + PanelSize.w >= PrimaryScreen.width - ProximityThreshold

DockState ==
    IF dragging THEN "Dragging"
    ELSE IF Expanding THEN "Expanding"
    ELSE IF Collapsing THEN "RetractPending"
    ELSE IF retracted THEN "Collapsed"
    ELSE IF Docked THEN "StuckVisible"
    ELSE "Free"

---------------------------------------------------------------------------
(* Properties of the overlay, checked under Spec *)

\* C1: outside the Expanding window, a collapsed indicator (storage window or
\* arrow widget) exists if and only if the retracted flag is set
C1_IndicatorIffCollapsed ==
    ~Expanding => (IndicatorExists <=> retracted)

\* C2: no step takes the overlay from Collapsed to a state other than Expanding,
\* and no step makes it Collapsed from a state other than StuckVisible or
\* RetractPending
C2_DockStateEdges ==
    [][ /\ (DockState = "Collapsed" /\ DockState' # "Collapsed")
            => DockState' = "Expanding"
        /\ (DockState # "Collapsed" /\ DockState' = "Collapsed")
            => DockState \in {"StuckVisible", "RetractPending"} ]_vars

\* C3: when the return animation that follows a collapse completes, the panel
\* stands exactly where it stood immediately before that collapse began
C3_RoundTrip ==
    [][ ((ExpandFinished \/ ShowFinished) /\ collapse_from.has)
            => pos' = Pt(collapse_from.x, collapse_from.y) ]_vars

\* C4: no collapse animation starts while the panel is being dragged
C4_NoCollapseWhileDragging ==
    [][ ~(dragging /\ ~Collapsing /\ Collapsing') ]_vars

\* C5: when the legacy retract timer armed by _schedule_retract expires on a
\* visible panel with no other collapse trigger pending, a collapse begins
C5_RetractTimerCollapses ==
    [][ ( /\ RetractTimerTimeout
          /\ ~retracted
          /\ ~anim.running
          /\ ~storage_anim
          /\ ~dragging
          /\ check_shots = 0
          /\ hide_shots = 0
          /\ auto_hide_timer # "active" )
            => Collapsing' ]_vars

\* C9: when no collapse/expand animation runs and the overlay is not collapsed,
\* the panel rectangle lies inside the display
C9_PanelInsideDisplay ==
    (~anim.running /\ ~storage_anim /\ ~retracted)
        => Contained(PrimaryScreen, pos.x, pos.y, PanelSize.w, PanelSize.h)

\* C10: the persisted position is never written while a collapse/expand
\* animation runs or while the panel is collapsed
C10_SaveOnlySettled ==
    [][ saved' # saved => (~retracted /\ ~anim.running /\ ~storage_anim) ]_vars

\* a retract / auto-hide countdown is pending: the legacy retract timer, the
\* auto-hide timer, or a single shot of _auto_hide_window
CountdownPending ==
    \/ retract_timer
    \/ auto_hide_timer = "active"
    \/ hide_shots > 0

\* C11: a countdown is pending only while the DockState is StuckVisible or
\* RetractPending; none is pending while the panel is Free, Dragging,
\* Collapsed or Expanding
C11_CountdownOnlyWhenDocked ==
    CountdownPending => DockState \in {"StuckVisible", "RetractPending"}

\* eventFilter returns True for a release, so the release never reaches the button
ReleaseConsumed == cfg.draggable /\ dragging

C13_PromotesToDragging ==
    [][ /\ (drag_timer /\ ~drag_timer' /\ grab = "left" /\ grab' = "left")
            => dragging'
        /\ (MouseMove /\ cfg.draggable /\ gesture.st = "pressed"
                /\ gesture'.st = "none") => (dragging' /\ pos' # pos)
        /\ (MouseMove /\ cfg.draggable /\ dragging) => dragging' ]_vars

\* a press was promoted to dragging by a move of exactly 3 px while the
\* long-press timer was still running
C13_Witness ==
    /\ dragging
    /\ drag_timer
    /\ grab = "left"
    /\ press_pos = Pt(12, 7)
    /\ pos = Pt(3, 4)

\* C14: the storage window and the arrow widget never exist at the same time,
\* also when the indicator style is changed between two collapse completions
C14_OneIndicatorVariant == ~(storage_window.has /\ arrow_widget.has)

\* C15: at most one geometry animation is running on the panel: the one
\* self.animation refers to; no animation that was replaced keeps running
C15_OneAnimationRunning == ~(anim.running /\ stray.running)

\* the edge tests of _check_edge_proximity
NearEdge ==
    \/ pos.x <= ProximityThreshold
    \/ pos.x + PanelSize.w >= PrimaryScreen.width - ProximityThreshold

\* C16: a proximity check invoked while the panel is already Collapsed, or
\* while it is not near an edge, is a no-op: no animation is started, no
\* indicator is created or destroyed, no position is written and DockState
\* does not change
C16_CheckIsNoOp ==
    [][ (CheckShotTimeout /\ (DockState = "Collapsed" \/ ~NearEdge))
            => /\ anim' = anim
               /\ storage_window' = storage_window
               /\ arrow_widget' = arrow_widget
               /\ pos' = pos
               /\ saved' = saved
               /\ DockState' = DockState ]_vars

\* C17: while the retract seconds are 0, no countdown is armed and no collapse
\* of the panel is started, in legacy and in auto-hide mode alike
C17_ZeroDisablesAutoRetract ==
    [][ (cfg.retract_seconds = 0 /\ cfg'.retract_seconds = 0)
            => /\ retract_timer' => retract_timer
               /\ auto_hide_timer' = "active" => auto_hide_timer = "active"
               /\ hide_shots' <= hide_shots
               /\ (anim'.running /\ anim'.kind = "collapse") => anim' = anim ]_vars

\* no column of a panel standing at x lies on the primary display
OffScreen(x) ==
    \/ x + PanelSize.w - 1 < PrimaryScreen.left
    \/ x > RectRight(PrimaryScreen)

\* C18: in auto-hide mode, when a collapse animation completes the panel's
\* rectangle lies entirely outside the display rectangle
C18_CollapsedOffScreen ==
    [][ (CollapseFinished /\ cfg.auto_hide) => OffScreen(pos'.x) ]_vars

\* C22: at every point of a drag the panel has moved from where it stood at
\* press time by exactly what the pointer has moved from the press point: the
\* press is at the offset Grab inside the panel, so the reference point (the
\* pointer position of the last move) stays at that offset from the panel
C22_PanelFollowsPointer ==
    (dragging /\ grab = "left" /\ cfg.draggable)
        => Pt(press_pos.x - pos.x, press_pos.y - pos.y) = Grab

\* the panel's return animation is running
Returning == anim.running /\ anim.kind \in {"expand", "show"}

\* C23: the panel's return animation does not run while a collapsed
\* indicator of either variant still exists
C23_ReturnAfterIndicatorGone == ~(Returning /\ IndicatorExists)

\* the collapsed indicator has been clicked and the expand is under way
Revealing == storage_anim \/ (anim.running /\ anim.kind = "show")

\* the expand has done its work: no indicator, the panel's rectangle inside
\* the display, the retracted flag cleared
Revealed ==
    /\ ~IndicatorExists
    /\ Contained(PrimaryScreen, pos.x, pos.y, PanelSize.w, PanelSize.h)
    /\ ~retracted

\* C24: after a click on the collapsed indicator (either variant), with
\* animations running to completion, the overlay reaches a state without
\* indicator, with the panel fully on-screen and the retracted flag cleared
C24_ClickReveals == Revealing ~> Revealed

\* the number of auto-hide countdowns that are running: the _auto_hide_timer
\* object and the single shots of _auto_hide_window
AutoHideCountdowns == hide_shots + (IF auto_hide_timer = "active" THEN 1 ELSE 0)

\* the panel's return animation reaches its end value
ExpandCompletes == ExpandFinished \/ ShowFinished

\* C25: when an expand completes, a fresh auto-hide countdown is armed at
\* that moment (the step that completes the expand starts one more countdown)
C25_CountdownArmedOnCompletion ==
    [][ ExpandCompletes => AutoHideCountdowns' > AutoHideCountdowns ]_vars

\* the indicator variant that on_animation_finished creates for the
\* configured style, as it is after the step
CreatedIndicator == IF cfg.indicator_style = 0 THEN storage_window' ELSE arrow_widget'

\* C26: when a collapse animation completes, the indicator is created with its
\* vertical centre at the vertical centre of the panel at its pre-collapse
\* position (both variants are IndicatorSize tall), and the panel is Collapsed
C26_IndicatorCentredOnPanel ==
    [][ (CollapseFinished /\ collapse_from.has)
            => /\ CreatedIndicator.has
               /\ 2 * CreatedIndicator.y + IndicatorSize
                      = 2 * collapse_from.y + PanelSize.h
               /\ retracted' ]_vars

\* C30: the legacy marker (_indicator) never coexists with a storage window or
\* an arrow widget, and it is not drawn while the auto-hide flag is on
C30_MarkersExclusive ==
    /\ ~(indicator # "none" /\ IndicatorExists)
    /\ cfg.auto_hide => indicator = "none"

\* the timers whose expiry runs _check_edge_proximity that are pending: the
\* auto-hide countdowns and the delayed proximity checks
CollapseTimers == AutoHideCountdowns + check_shots

\* C32: at most one collapse-triggering timer is pending at any time
C32_TimersDoNotOverlap == CollapseTimers <= 1

\* the overlay is as __init__ left it
Constructed == InitOverlayAt(StartPositions)

\* the panel is flush with the left or the right edge of its display
Flush ==
    \/ pos.x = PrimaryScreen.left
    \/ pos.x + PanelSize.w - 1 = RectRight(PrimaryScreen)

\* C35: after construction the overlay is Free, unless the position is flush
\* with the left or right edge of the display: then it is StuckVisible
C35_StartsFreeOrStuck ==
    Constructed => DockState = (IF Flush THEN "StuckVisible" ELSE "Free")

\* the persisted position lies inside the display
StoredInside ==
    ClampToScreen(PrimaryScreen, PanelSize.w, PanelSize.h, saved.x, saved.y) = saved

\* C39: a position inside the display that was written to float_position,
\* x = 0 included, is the position of the panel after the next construction
C39_PositionRoundTrip == (Constructed /\ StoredInside) => pos = saved

\* C36: whenever the exit animation of a clicked indicator completes, its
\* callback has a target position for the panel: a saved pre-collapse
\* position, or the panel is off-screen to the left or right of the display
C36_ExpandHasTarget ==
    [][ StorageAnimFinished => ExpandTarget.has ]_vars

\* the panel's rectangle lies inside the display
PanelOnScreen ==
    Contained(PrimaryScreen, pos.x, pos.y, PanelSize.w, PanelSize.h)

\* no animation of the panel or of its indicator is in flight
NoAnimationInFlight == ~anim.running /\ ~storage_anim /\ ~stray.running

\* C37: with the auto-hide flag off, once the animations in flight have
\* completed no collapsed indicator exists, the panel is fully on-screen and
\* not marked retracted; and while the flag stays off no collapse begins and
\* no indicator is created
C37_FlagOffExpands ==
    [][ ~cfg'.auto_hide
            => /\ NoAnimationInFlight'
                    => (~IndicatorExists' /\ PanelOnScreen' /\ ~retracted')
               /\ ~cfg.auto_hide
                    => /\ ~(Collapsing' /\ ~Collapsing)
                       /\ ~(IndicatorExists' /\ ~IndicatorExists) ]_vars

\* a pointer event on the panel or its children, or the long-press timer
PanelGesture == MousePress \/ MouseMove \/ MouseRelease \/ DragTimerTimeout

\* C38: while floating_window_draggable is false no press / move / release on
\* the panel starts a drag or moves the panel, and the press that follows a
\* change to false in the middle of a drag finds the detector idle
C38_NotDraggable ==
    [][ (~cfg.draggable /\ PanelGesture)
            => /\ pos' = pos
               /\ dragging' => dragging
               /\ MousePress => ~dragging' ]_vars

\* a release that ends a drag
DragRelease == MouseRelease /\ dragging /\ ~dragging'

\* the release does not dock the panel: stick-to-edge is disabled, or the
\* panel is away from both edges of its display
NotDockedByRelease ==
    \/ ~cfg.stick_to_edge
    \/ StickToNearestEdge(ScreenAt(Center(pos)), PanelSize.w, pos.x, pos.y).side
          = "none"

\* C40: a drag release that does not dock the panel leaves the stuck flag
\* false, schedules no retract and clears the legacy edge marker
C40_ReleaseRecordsGeometry ==
    [][ (DragRelease /\ NotDockedByRelease)
            => /\ ~last_stuck'
               /\ ~(retract_timer' /\ ~retract_timer)
               /\ indicator' = "none" ]_vars

\* a configuration change of one of the keys opacity, placement, display
\* style, long-press duration, recover seconds, indicator display style,
\* draggable, button control
PlainSettingChange ==
    /\ events' # events
    /\ \/ SettingNumber
       \/ SettingScalar
       \/ SettingLayout
       \/ (SettingField /\ cfg'.stick_to_edge = cfg.stick_to_edge)

\* the fields of the configuration snapshot a step changes
ChangedFields == { f \in DOMAIN cfg : cfg'[f] # cfg[f] }

---------------------------------------------------------------------------
(* The dock decision against the collapse decision, checked under SpecGeom *)

\* C31: the release's dock decision and the proximity check's collapse
\* decision agree on every display: docked left (right) is followed by a
\* collapse toward the left (right), not docked by no collapse
C31_DockAndCollapseAgree ==
    probe.pc = "checked" => probe.check = probe.first.side

---------------------------------------------------------------------------
(* Properties of the collapsed indicator, checked under SpecHandle *)

\* C27: the indicator's x, the coordinate perpendicular to the docked edge,
\* stays the x it was created with through every press / move / release
C27_PerpendicularAxisFixed ==
    handle.kind # "none" => handle.x = handle.x0

\* C28: the indicator of style 0 keeps its position through every press /
\* move / release on it, and a click on it triggers the expand
C28_PinnedMarkerFixed ==
    [][ handle.kind = "storage"
            => /\ handle'.kind = "storage"
                    => (handle'.x = handle.x /\ handle'.y = handle.y)
               /\ (OnStorageRelease /\ ~handle.dragging) => handle'.expanded ]_vars

\* the left button is released on the indicator
LeftRelease == OnStorageRelease \/ WidgetMouseRelease

\* the right button is released on the indicator
RightRelease == OnStorageRightRelease \/ WidgetRightRelease

\* the gesture on the indicator has become a drag
HandleDragged ==
    IF handle.kind = "storage" THEN handle.dragging
    ELSE handle.dragging \/ handle.was_dragging

\* C33: on the collapsed indicator a left press and release without a drag
\* triggers the expand, a release that ends a drag does not, and a right
\* release triggers the expand when no drag is in progress
C33_ClickExpands ==
    [][ /\ (LeftRelease /\ ~HandleDragged) => handle'.expanded
        /\ (LeftRelease /\ HandleDragged) => ~handle'.expanded
        /\ (RightRelease /\ ~handle.dragging) => handle'.expanded ]_vars

\* the drag has been released and no snap animation is in flight
DragSettled == handle.released = "drag" /\ ~handle.down /\ ~handle.snapping

\* C29: an indicator released after a drag ends at the top anchor, the bottom
\* anchor or the centre when it was released within the tolerance of one, in
\* that order, and otherwise where it was released; its x is the x it was
\* released with
C29_SnapsAfterDrag ==
    DragSettled => /\ handle.y = SmartSnapTarget(handle.rel_y)
                   /\ handle.x = handle.rel_x

---------------------------------------------------------------------------
(* Properties of the button bar, checked under SpecButtons *)

\* the five actions in the order _create_button tests them
Vocabulary ==
    << "roll_call", "quick_draw", "instant_draw", "custom_draw", "lottery" >>

\* the place of an action in that order
Rank(a) == CHOOSE k \in 1 .. Len(Vocabulary) : Vocabulary[k] = a

\* the number of actions of the row for index idx
RowLength(idx) ==
    IF idx <= 4 THEN 1 ELSE IF idx <= 10 THEN 2 ELSE IF idx <= 14 THEN 3 ELSE 4

\* C19: for every index 0..15 _map_button_control returns the table row of
\* that index: one action for 0-4 (the five single actions, one each), two for
\* 5-10, three for 11-14, four for 15; index 5 gives roll_call, quick_draw;
\* every row is non-empty, has no duplicates, is drawn from the five actions
\* and is ordered roll_call < quick_draw < instant_draw < custom_draw < lottery
C19_MapButtonControl ==
    (bar.pc = "mapped" /\ bar.idx \in 0 .. 15) =>
        LET row == bar.spec
        IN  /\ row = Combos[bar.idx + 1]
            /\ Len(row) = RowLength(bar.idx)
            /\ Len(row) >= 1
            /\ bar.idx <= 4 => row = << Vocabulary[bar.idx + 1] >>
            /\ bar.idx = 5 => row = << "roll_call", "quick_draw" >>
            /\ \A i \in 1 .. Len(row) : \E k \in 1 .. Len(Vocabulary) : row[i] = Vocabulary[k]
            /\ \A i, j \in 1 .. Len(row) : i < j => Rank(row[i]) < Rank(row[j])

\* the four-action row has been produced for index 15
C19_Witness ==
    /\ bar.pc = "mapped"
    /\ bar.idx = 15
    /\ bar.spec = << "roll_call", "quick_draw", "custom_draw", "lottery" >>
    /\ bar.added = 0

\* C34: a stored button-control index that is missing, negative or greater
\* than 15 gives the row of index 0, [roll_call]: a missing value is read as
\* index 0 and every integer outside 0..15 is mapped to that row
C34_IndexCoercedToDefault ==
    bar.pc = "mapped" =>
        /\ ~bar.stored.has => bar.idx = 0
        /\ (~bar.stored.has \/ bar.stored.v < 0 \/ bar.stored.v > 15)
               => bar.spec = << "roll_call" >>
        /\ Len(bar.spec) >= 1

\* the index 17 has been mapped to the default row
C34_Witness ==
    /\ bar.pc = "mapped"
    /\ bar.stored = Stored(17)
    /\ bar.idx = 17
    /\ bar.spec = << "roll_call" >>

\* ceil(n / 2): the least k with 2 k >= n
CeilHalf(n) == CHOOSE k \in 0 .. n : 2 * k >= n /\ 2 * (k - 1) < n

\* C20: with placement 0 the buttons with index < ceil(n/2) are in the top
\* row and the others in the bottom row, in specification order; with
\* placement 1 or 2 every button is in the single container layout
C20_AddButtonRows ==
    bar.pc = "mapped" =>
        LET n == Len(bar.spec)
            k == bar.added
        IN  IF bar.placement = 0
              THEN /\ bar.top = SubSeq(bar.spec, 1, Min(k, CeilHalf(n)))
                   /\ bar.bottom = SubSeq(bar.spec, CeilHalf(n) + 1, k)
                   /\ bar.container = << >>
                   /\ k = n => /\ Len(bar.top) = CeilHalf(n)
                               /\ Len(bar.bottom) = n - CeilHalf(n)
              ELSE /\ bar.container = SubSeq(bar.spec, 1, k)
                   /\ bar.top = << >>
                   /\ bar.bottom = << >>

\* three buttons were placed in split rows: two on top, one below
C20_Witness ==
    /\ bar.pc = "mapped"
    /\ bar.placement = 0
    /\ bar.added = 3
    /\ Len(bar.spec) = 3
    /\ Len(bar.top) = 2
    /\ Len(bar.bottom) = 1

---------------------------------------------------------------------------
(* Properties of the geometry functions, checked under SpecGeom *)

\* the panel does not exceed the display in either dimension
PanelFits == probe.w <= probe.geo.width /\ probe.h <= probe.geo.height

\* C6 as stated: for every desired position, display rectangle and panel size,
\* panels wider or taller than the display included, the position returned by
\* _clamp_to_screen puts the whole panel rectangle inside the display
C6_ClampContainsAnyPanel ==
    probe.pc = "clamped" =>
        Contained(probe.geo, probe.out.x, probe.out.y, probe.w, probe.h)

\* C6, for panels no larger than the display: the position returned by
\* _clamp_to_screen puts the whole panel rectangle inside the display
C6_ClampContainsFittingPanel ==
    (probe.pc = "clamped" /\ PanelFits) =>
        Contained(probe.geo, probe.out.x, probe.out.y, probe.w, probe.h)

\* a fitting panel asked to go beyond the display's right and top edges was clamped
C6_Witness ==
    /\ probe.pc = "clamped"
    /\ PanelFits
    /\ probe.x + probe.w - 1 > RectRight(probe.geo)
    /\ probe.y < probe.geo.top
    /\ probe.out # Pt(probe.x, probe.y)

\* C7: running _stick_to_nearest_edge a second time on the geometry left by the
\* first run gives the same edge decision and leaves the position unchanged
C7_StickIdempotent ==
    probe.pc = "stuck twice" =>
        /\ probe.second.side = probe.first.side
        /\ probe.second.x = probe.first.x
        /\ probe.second.y = probe.first.y

\* C8: with leftGap = panel.left - display.left and rightGap = display.right -
\* panel.right, leftGap <= 5 docks left at display.left, else rightGap <= 5 docks
\* right at display.right - panelWidth + 1, else nothing moves; y never changes
\* and the stuck flag is set exactly when the decision is left or right
C8_DockRule ==
    probe.pc = "stuck" =>
        LET leftGap == probe.x - probe.geo.left
            rightGap == (probe.geo.left + probe.geo.width - 1)
                            - (probe.x + probe.w - 1)
            r == probe.first
        IN  /\ leftGap <= 5 => r.side = "left" /\ r.x = probe.geo.left
            /\ (leftGap > 5 /\ rightGap <= 5) =>
                   /\ r.side = "right"
                   /\ r.x = probe.geo.left + probe.geo.width - 1 - probe.w + 1
            /\ (leftGap > 5 /\ rightGap > 5) => r.side = "none" /\ r.x = probe.x
            /\ r.y = probe.y
            /\ r.stuck <=> r.side \in {"left", "right"}

\* a panel released exactly 5 pixels from the right edge of a display whose
\* origin is not (0, 0) docked right
C8_Witness ==
    /\ probe.pc = "stuck"
    /\ probe.geo.left # 0
    /\ probe.x - probe.geo.left > 5
    /\ RectRight(probe.geo) - (probe.x + probe.w - 1) = 5
    /\ probe.first.side = "right"
    /\ probe.first.x # probe.x

=============================================================================
